---------------------------- MODULE Spec2Model ----------------------------
(***************************************************************************)
(* Model of the coinbasepro client runtime: the token bucket               *)
(* (token_bucket.py), the lock-protected rate limiter (rate_limiter.py),   *)
(* the REST request paths of PublicClient (public_client.py), the second   *)
(* limiter of AuthenticatedClient (auth_client.py) and the websocket       *)
(* client (websocket_client.py).                                           *)
(*                                                                         *)
(* Time is discrete: one second (the limiter's refill_period of 1.0) is    *)
(* refill_period ticks, so sub-period fractions of time are observable.    *)
(***************************************************************************)
EXTENDS Integers, Sequences, FiniteSets, TLC

(* ------------------------------ bounds --------------------------------- *)
MaxPeriods == 3     \* the time horizon, in refill periods
NumCallers == 3     \* concurrent callers of the client
MaxCalls == 3       \* requests started in all
MaxRate == 2        \* the largest rate_limit and burst_size tried
MaxPages == 3       \* requests of one paginated fetch
MaxStarts == 2      \* start() calls on one WebsocketClient
MaxCloses == 2      \* close() calls by the caller
MaxMessages == 2    \* messages the feed delivers
MaxErrors == 2      \* on_error calls of one WebsocketClient
MaxTokens == 3      \* the most tokens one reduce() asks for
MaxSpends == 6      \* reduce(1) calls made on the bucket and on the reference bucket
keepalive_timer == 2        \* WebsocketClient(keepalive_timer=...), in ticks
WallClockAtStart == 8       \* time.time() when the program starts, in ticks

(* ------------------------------ state ---------------------------------- *)
VARIABLES
    now,            \* time.monotonic(), in ticks
    rate_limit,     \* PublicClient(rate_limit=...)
    burst_size,     \* PublicClient(burst_size=...)
    limiter_on,     \* self.p_rate_limiter is not None
    lock,           \* RateLimiter.lock: 0 when free, else the holder
    token_bucket,   \* RateLimiter.token_bucket: [max_amount, refill_amount, value, last_update]
    callers,        \* the concurrent contexts that call the client
    horizon,        \* the time up to which the run is followed
    pc,             \* where each caller is in _send_message / rate_limit
    wake,           \* the time a caller's time.sleep() may return
    calls_left,     \* requests the callers may still start
    grants,         \* history: the time of every return of rate_limit(), in order
    credits,        \* history: per caller, rate_limit() returns minus requests issued
    response,       \* the latest HTTP response of a direct request
    raised,         \* the exception the latest direct request raised, "None" if it returned
    kind,           \* per caller: "direct" (_send_message) or "paged" (_send_paginated_message)
    endpoint,       \* the paginated fetch's endpoint, the local `url` without the base URL
    params,         \* the paginated fetch's params dict: [before, after, limit]
    results,        \* the paginated fetch's current page, r.json()
    idx,            \* how many items of results the for loop has yielded
    yielded,        \* history: the items handed to the consumer, in order
    asked,          \* history: the consumer's next() calls on the generator
    exchanges,      \* history: the fetch's requests, [url, params, response] each
    fetch_error,    \* the exception the generator raised to its consumer, "None" if none
    stop,           \* WebsocketClient.stop
    ws,             \* WebsocketClient.ws: 0 for None, else the connection
    thread,         \* WebsocketClient.thread: 0 for None, else the Thread
    tpc,            \* where each Thread is in _go, "none" before it is created
    conn,           \* each connection: "none", "open" or "closed"
    main,           \* the context that calls start() and close(): "ready" or "joining"
    starts,         \* history: calls of start()
    closes,         \* history: calls of close() by the caller
    n_open,         \* history: calls of on_open
    n_close,        \* history: calls of on_close
    n_message,      \* history: calls of on_message
    n_error,        \* history: calls of on_error
    error_callback, \* "on_error" when on_error is WebsocketClient's, "override" when a subclass's
    transport,      \* how the websocket transport behaves, one of Transports
    data,           \* per Thread: the local `data` of _listen, 0 before a recv() returned
    received,       \* history: the frames recv() returned, in order
    delivered,      \* history: the on_message calls, [msg, by] each, in order
    pings,          \* history: the times of the pings sent, in order
    auth,           \* WebsocketClient.auth
    sent,           \* history: the messages sent with ws.send, the set of keys of each
    at_stop,        \* history: the pings, frames and on_message calls counted when close() set stop, until start() clears stop
    n_joined,       \* history: close() calls of the caller whose join returned
    bucket_call,    \* history: the latest call on the TokenBucket, [op, tokens, at, before, result, reduces]
    reference,      \* a bucket that caps its count but never moves last_update to now
    n_spent,        \* history: reduce(1) calls that returned True
    n_spent_reference, \* history: spends that succeeded on the reference bucket
    auth_rate_limit,  \* AuthenticatedClient(auth_rate_limit=...)
    auth_burst_size,  \* AuthenticatedClient(auth_burst_size=...)
    a_limiter_on,   \* self.a_rate_limiter is not None
    a_lock,         \* the lock of self.a_rate_limiter: 0 when free, else the holder
    a_token_bucket, \* the token_bucket of self.a_rate_limiter
    a_grants        \* history: the time of every return of a_rate_limiter.rate_limit(), in order

\* what is fixed when the client is built
configVars == <<rate_limit, burst_size, limiter_on, callers, kind, horizon, endpoint>>

\* the state of one paginated fetch
pagVars == <<params, results, idx, yielded, asked, exchanges, fetch_error>>

restNoPc_but_raised == <<now, configVars, lock, token_bucket, wake, calls_left, grants,
                         credits, response>>
restNoPc == <<restNoPc_but_raised, raised>>
restVars == <<restNoPc, pc>>

\* the state of one WebsocketClient and its threads
wsVars == <<stop, ws, thread, tpc, conn, main, starts, closes, n_open, n_close,
            n_message, n_error, error_callback, transport, data, received, delivered,
            pings, n_joined, auth, sent, at_stop>>

\* the record of the calls made on a TokenBucket used on its own
bucketVars == <<bucket_call, reference, n_spent, n_spent_reference>>

\* the limiter AuthenticatedClient adds to PublicClient's
authVars == <<auth_rate_limit, auth_burst_size, a_limiter_on, a_lock, a_token_bucket,
              a_grants>>

\* what the requests to the public endpoints leave alone
otherVars == <<wsVars, bucketVars, authVars>>

vars == <<restVars, pagVars, wsVars, bucketVars, authVars>>

(* --------------------------- token_bucket.py --------------------------- *)
\* RateLimiter passes refill_period=1.0: one second, counted in ticks of half a second
refill_period == 2

MaxTime == MaxPeriods * refill_period

\* TokenBucket.__init__ followed by reset() at time t
TokenBucket(max_amount, refill_amount, t) ==
    [max_amount |-> max_amount, refill_amount |-> refill_amount,
     value |-> max_amount, last_update |-> t]

\* _refill_count with `/ self.refill_period` left out
refill_count_undivided(b, t) == t - b.last_update

\* int((time.monotonic() - self.last_update) / self.refill_period)
refill_count(b, t) == (t - b.last_update) \div refill_period

\* time_to_next_token with half of refill_period added to last_update
time_to_next_token_half_period(b, t) ==
    b.last_update + refill_period \div 2 - t - refill_count(b, t) * refill_period

\* last_update + refill_period - monotonic() - _refill_count() * refill_period
time_to_next_token(b, t) ==
    b.last_update + refill_period - t - refill_count(b, t) * refill_period

\* reset without `self.last_update = time.monotonic()`
reset_keeping_last_update(b, t) == [b EXCEPT !.value = b.max_amount]

\* TokenBucket.reset
reset(b, t) == [b EXCEPT !.value = b.max_amount, !.last_update = t]

\* get without the cap min(self.max_amount, ...)
get_uncapped(b, t) == b.value + refill_count(b, t) * b.refill_amount

\* TokenBucket.get
get(b, t) ==
    LET v == b.value + refill_count(b, t) * b.refill_amount
    IN  IF b.max_amount < v THEN b.max_amount ELSE v

\* the refill with last_update moved to the time of the call
refilled_to_now(b, t) ==
    LET n  == refill_count(b, t)
        b1 == [b EXCEPT !.value = b.value + n * b.refill_amount,
                        !.last_update = t]
    IN  IF b1.value >= b1.max_amount THEN reset(b1, t) ELSE b1

\* the refill with `if self.value >= self.max_amount: self.reset()` left out
refilled_without_reset(b, t) ==
    LET n == refill_count(b, t)
    IN  [b EXCEPT !.value = b.value + n * b.refill_amount,
                  !.last_update = b.last_update + n * refill_period]

\* the refill and reset-on-full part of reduce()
refilled(b, t) ==
    LET n  == refill_count(b, t)
        b1 == [b EXCEPT !.value = b.value + n * b.refill_amount,
                        !.last_update = b.last_update + n * refill_period]
    IN  IF b1.value >= b1.max_amount THEN reset(b1, t) ELSE b1

\* reduce with `self.value -= tokens` left out
reduce_without_spend(b, t, tokens) ==
    [ok |-> tokens <= refilled(b, t).value, bucket |-> refilled(b, t)]

\* reduce with `tokens >= self.value` for `tokens > self.value`
reduce_refusing_all(b, t, tokens) ==
    LET b2 == refilled(b, t)
    IN  IF tokens >= b2.value
        THEN [ok |-> FALSE, bucket |-> b2]
        ELSE [ok |-> TRUE, bucket |-> [b2 EXCEPT !.value = b2.value - tokens]]

\* reduce without the test `tokens > self.value`
reduce_unchecked(b, t, tokens) ==
    [ok |-> TRUE, bucket |-> [refilled(b, t) EXCEPT !.value = @ - tokens]]

\* TokenBucket.reduce: the success flag and the bucket afterwards
reduce(b, t, tokens) ==
    LET b2 == refilled(b, t)
    IN  IF tokens > b2.value
        THEN [ok |-> FALSE, bucket |-> b2]
        ELSE [ok |-> TRUE, bucket |-> [b2 EXCEPT !.value = b2.value - tokens]]


(* --------------------------- rate_limiter.py --------------------------- *)
\* RateLimiter.__init__: the bucket refills rate_limit tokens every 1.0 s
RateLimiter(burst, rate, t) == TokenBucket(burst, rate, t)

(* --------------------------- public_client.py -------------------------- *)
None == "None"

\* has_rate_limiter with `>=` for `>`
has_rate_limiter_for_zero(rate) == rate >= 0

\* PublicClient.__init__: a limiter is built only for a positive rate_limit
has_rate_limiter(rate) == rate > 0

\* what a response body parses to:
\*   "message": a JSON object with a "message" member
\*   "object" : a JSON object without one
\*   "list"   : a JSON list
\*   "text"   : not JSON
BodyKinds == {"message", "object", "list", "text"}

\* response.json()["message"]
json_message(body) ==
    CASE body = "message" -> None
      [] body = "object"  -> "KeyError"
      [] body = "list"    -> "TypeError"
      [] OTHER            -> "JSONDecodeError"

\* check_errors_and_raise with the range test `400 <= status_code < 500`
check_errors_and_raise_4xx_only(r) ==
    IF 400 <= r.status_code /\ r.status_code < 500
    THEN IF json_message(r.body) # None THEN json_message(r.body)
         ELSE CASE r.status_code = 400 -> "BadRequest"
                [] r.status_code = 401 -> "InvalidAPIKey"
                [] r.status_code = 403 -> "InvalidAuthorization"
                [] r.status_code = 429 -> "RateLimitError"
                [] OTHER               -> "CoinbaseAPIError"
    ELSE None

\* PublicClient._check_errors_and_raise: the exception raised, None if none
check_errors_and_raise(r) ==
    IF 400 <= r.status_code /\ r.status_code < 600
    THEN IF json_message(r.body) # None THEN json_message(r.body)
         ELSE CASE r.status_code = 400 -> "BadRequest"
                [] r.status_code = 401 -> "InvalidAPIKey"
                [] r.status_code = 403 -> "InvalidAuthorization"
                [] r.status_code = 429 -> "RateLimitError"
                [] OTHER               -> "CoinbaseAPIError"
    ELSE None

\* r.json(parse_float=Decimal): the exception raised, None if it parses
json_parse(r) == IF r.body = "text" THEN "JSONDecodeError" ELSE None

\* request_outcome with the _check_errors_and_raise(r) call left out
request_outcome_unchecked(r) == json_parse(r)

\* _check_errors_and_raise(r) followed by r.json()
request_outcome(r) ==
    IF check_errors_and_raise(r) # None THEN check_errors_and_raise(r)
    ELSE json_parse(r)

NoCursor == "None"
Response(status, body, items, after) ==
    [status_code |-> status, body |-> body, items |-> items, cb_after |-> after]
NoResponse == Response(0, "text", <<>>, NoCursor)

\* the responses the server gives to the requests of the callers
DirectResponses ==
    { Response(200, "list", <<>>, NoCursor), Response(400, "message", <<>>, NoCursor) }

\* begin_request with the rate_limit() call left out
begin_request_unlimited == "request"

\* `if rate_limiter: rate_limiter.rate_limit()`: where a request starts
begin_request == IF limiter_on THEN "lock" ELSE "request"

\* _send_message up to `if rate_limiter:`; a caller starts a request
send_message_begin(c) ==
    /\ kind[c] = "direct"
    /\ pc[c] = "idle"
    /\ calls_left > 0
    /\ calls_left' = calls_left - 1
    /\ pc' = [pc EXCEPT ![c] = begin_request]
    /\ UNCHANGED <<now, configVars, lock, token_bucket, wake, grants, credits,
                   response, raised, pagVars, otherVars>>

\* rate_limit_enter without waiting for the lock to be free
rate_limit_enter_unlocked(c) ==
    /\ pc[c] = "lock"
    /\ lock' = c
    /\ pc' = [pc EXCEPT ![c] = "loop"]
    /\ UNCHANGED <<now, configVars, token_bucket, wake, calls_left, grants, credits,
                   response, raised, pagVars, otherVars>>

\* RateLimiter.rate_limit: `with self.lock:` entered
rate_limit_enter(c) ==
    /\ pc[c] = "lock"
    /\ lock = 0
    /\ lock' = c
    /\ pc' = [pc EXCEPT ![c] = "loop"]
    /\ UNCHANGED <<now, configVars, token_bucket, wake, calls_left, grants, credits,
                   response, raised, pagVars, otherVars>>

\* RateLimiter.rate_limit: one evaluation of `while not reduce(tokens=1)`, the
\* first or one after a sleep; on success the lock is released and
\* rate_limit() returns, otherwise time_to_next_token() is to be called
rate_limit_loop(c) ==
    /\ pc[c] \in {"loop", "retry"}
    /\ LET r == reduce(token_bucket, now, 1)
       IN  /\ token_bucket' = r.bucket
           /\ IF r.ok
              THEN /\ lock' = 0
                   /\ pc' = [pc EXCEPT ![c] = "request"]
                   /\ grants' = Append(grants, now)
                   /\ credits' = [credits EXCEPT ![c] = @ + 1]
              ELSE /\ pc' = [pc EXCEPT ![c] = "timing"]
                   /\ UNCHANGED <<lock, grants, credits>>
    /\ UNCHANGED <<now, configVars, wake, calls_left, response, raised, pagVars,
                   otherVars>>

\* time.sleep(secs) raises ValueError for a negative secs
sleep_raises(secs) == secs < 0

\* RateLimiter.rate_limit: time.sleep(self.token_bucket.time_to_next_token()),
\* called some time after the reduce() that failed, with the lock held; a
\* ValueError of time.sleep leaves the `with` block, which releases the
\* lock, and _send_message or the generator, which make no request
rate_limit_sleep(c) ==
    /\ pc[c] = "timing"
    /\ LET secs == time_to_next_token(token_bucket, now)
       IN  IF sleep_raises(secs)
           THEN /\ lock' = 0
                /\ pc' = [pc EXCEPT ![c] = IF kind[c] = "paged" THEN "failed" ELSE "idle"]
                /\ raised' = IF kind[c] = "paged" THEN raised ELSE "ValueError"
                /\ fetch_error' = IF kind[c] = "paged" THEN "ValueError" ELSE fetch_error
                /\ UNCHANGED wake
           ELSE /\ pc' = [pc EXCEPT ![c] = "sleep"]
                /\ wake' = [wake EXCEPT ![c] = now + secs]
                /\ UNCHANGED <<lock, raised, fetch_error>>
    /\ UNCHANGED <<now, configVars, token_bucket, calls_left, grants, credits, response,
                   params, results, idx, yielded, asked, exchanges, otherVars>>

\* time.sleep() returns, no earlier than asked, and the loop tests again
rate_limit_wake(c) ==
    /\ pc[c] = "sleep"
    /\ now >= wake[c]
    /\ pc' = [pc EXCEPT ![c] = "retry"]
    /\ wake' = [wake EXCEPT ![c] = 0]
    /\ UNCHANGED <<now, configVars, lock, token_bucket, calls_left, grants, credits,
                   response, raised, pagVars, otherVars>>

\* _send_message: session.request, _check_errors_and_raise, return r.json()
send_message_request(c) ==
    /\ kind[c] = "direct"
    /\ pc[c] = "request"
    /\ \E r \in DirectResponses :
          /\ response' = r
          /\ raised' = request_outcome(r)
    /\ credits' = [credits EXCEPT ![c] = @ - 1]
    /\ pc' = [pc EXCEPT ![c] = "idle"]
    /\ UNCHANGED <<now, configVars, lock, token_bucket, wake, calls_left, grants,
                   pagVars, otherVars>>

(* ------------------- _send_paginated_message --------------------------- *)
\* the pages and cursors the server may send
PageItems == {<<>>, <<"a", "b">>, <<"c">>}
Cursors == {NoCursor, "X", "Y"}

\* the responses the server gives to a page request: a JSON list with or
\* without a cb-after header, a body that is not JSON, a redirect carrying a
\* list, and error statuses with and without a JSON message
PagedResponses ==
    { Response(200, "list", i, a) : i \in PageItems, a \in Cursors }
    \cup { Response(200, "text", <<>>, NoCursor), Response(301, "list", <<"c">>, "X"),
           Response(400, "message", <<>>, NoCursor), Response(429, "message", <<>>, "X"),
           Response(503, "text", <<>>, NoCursor) }

\* stop_paging that goes on without a cb-after header
stop_paging_on_before_only(r, p) == p.before # None

\* stop_paging that follows the cursor of a request made with `before`
stop_paging_on_cursor_only(r, p) == r.cb_after = NoCursor

\* `if not r.headers.get("cb-after") or params.get("before") is not None: break`
stop_paging(r, p) == r.cb_after = NoCursor \/ p.before # None

\* a loop that hands out the page's first item every time
next_result_first(page, i) == page[1]

\* `for result in results: yield result`: the item after the i handed out
next_result(page, i) == page[i + 1]

\* page_exhausted one item early
page_exhausted_early(page, i) == i + 1 >= Len(page)

\* the for loop over results has no item left
page_exhausted(page, i) == i >= Len(page)

\* the endpoint a paginated fetch is made on
Endpoints == {"/fills"}

\* the next request's params built anew from the cursor
next_params_from_cursor(p, r) == [before |-> None, after |-> r.cb_after, limit |-> None]

\* `params["after"] = r.headers["cb-after"]` on the fetch's one params dict
next_params(p, r) == [p EXCEPT !.after = r.cb_after]

\* the code after the for loop: stop, or set params["after"] and loop
after_page(c, r) ==
    IF stop_paging(r, params)
    THEN /\ pc' = [pc EXCEPT ![c] = "done"]
         /\ UNCHANGED params
    ELSE /\ pc' = [pc EXCEPT ![c] = begin_request]
         /\ params' = next_params(params, r)

\* the consumer's first next(): the generator runs up to the first request
paginated_start(c) ==
    /\ kind[c] = "paged"
    /\ pc[c] = "unstarted"
    /\ asked' = asked + 1
    /\ pc' = [pc EXCEPT ![c] = begin_request]
    /\ UNCHANGED <<restNoPc, params, results, idx, yielded, exchanges, fetch_error,
                   otherVars>>

\* session.get, _check_errors_and_raise, r.json(), and the for loop up to
\* its first yield (or, for an empty page, the code after the loop)
paginated_request(c) ==
    /\ kind[c] = "paged"
    /\ pc[c] = "request"
    /\ Len(exchanges) < MaxPages
    /\ credits' = [credits EXCEPT ![c] = @ - 1]
    /\ \E r \in PagedResponses :
          /\ exchanges' = Append(exchanges, [url |-> endpoint, params |-> params,
                                              response |-> r])
          /\ IF request_outcome(r) # None
             THEN /\ fetch_error' = request_outcome(r)
                  /\ pc' = [pc EXCEPT ![c] = "failed"]
                  /\ UNCHANGED <<params, results, idx, yielded>>
             ELSE /\ results' = r.items
                  /\ fetch_error' = None
                  /\ IF page_exhausted(r.items, 0)
                     THEN /\ idx' = 0
                          /\ after_page(c, r)
                          /\ UNCHANGED yielded
                     ELSE /\ idx' = 1
                          /\ yielded' = Append(yielded, next_result(r.items, 0))
                          /\ pc' = [pc EXCEPT ![c] = "suspended"]
                          /\ UNCHANGED params
    /\ UNCHANGED <<now, configVars, lock, token_bucket, wake, calls_left, grants,
                   response, raised, asked, otherVars>>

\* the consumer's next() on the generator suspended at `yield result`
paginated_resume(c) ==
    /\ kind[c] = "paged"
    /\ pc[c] = "suspended"
    /\ asked' = asked + 1
    /\ IF page_exhausted(results, idx)
       THEN /\ after_page(c, exchanges[Len(exchanges)].response)
            /\ UNCHANGED <<idx, yielded>>
       ELSE /\ idx' = idx + 1
            /\ yielded' = Append(yielded, next_result(results, idx))
            /\ UNCHANGED <<pc, params>>
    /\ UNCHANGED <<now, configVars, lock, token_bucket, wake, calls_left, grants,
                   credits, response, raised, results, exchanges, fetch_error,
                   otherVars>>

\* the consumer stops iterating: the suspended generator is never resumed
paginated_close(c) ==
    /\ kind[c] = "paged"
    /\ pc[c] = "suspended"
    /\ pc' = [pc EXCEPT ![c] = "closed"]
    /\ UNCHANGED <<restNoPc, pagVars, otherVars>>

\* time passes
Tick ==
    /\ now < horizon
    /\ now' = now + 1
    /\ UNCHANGED <<configVars, lock, token_bucket, pc, wake, calls_left, grants,
                   credits, response, raised, pagVars, otherVars>>

\* no call made on the TokenBucket by itself
NoCall == [op |-> "none", tokens |-> 0, at |-> 0, before |-> token_bucket, result |-> 0,
           reduces |-> 0]

\* a client that has no a_rate_limiter
NoAuthLimiter ==
    /\ auth_rate_limit = 0
    /\ auth_burst_size = 1
    /\ a_limiter_on = FALSE
    /\ a_lock = 0
    /\ a_token_bucket = RateLimiter(1, 0, 0)
    /\ a_grants = <<>>

\* PublicClient.__init__ at time 0, and the threads that will use the client
PublicClient(rates, bursts, threads) ==
    /\ now = 0
    /\ rate_limit \in rates
    /\ burst_size \in bursts
    /\ limiter_on = has_rate_limiter(rate_limit)
    /\ lock = 0
    /\ token_bucket = RateLimiter(burst_size, rate_limit, 0)
    /\ callers = threads
    /\ wake = [c \in callers |-> 0]
    /\ grants = <<>>
    /\ credits = [c \in callers |-> 0]
    /\ bucket_call = NoCall
    /\ reference = token_bucket
    /\ n_spent = 0
    /\ n_spent_reference = 0

\* a PublicClient built at time 0, and the threads that will use it
InitClient(rates, bursts, threads) ==
    /\ PublicClient(rates, bursts, threads)
    /\ NoAuthLimiter

\* close() was not called yet
NoStop == [called |-> FALSE, pings |-> 0, received |-> 0, delivered |-> 0]

\* WebsocketClient.__init__
InitWebsocket ==
    /\ stop = FALSE
    /\ ws = 0
    /\ thread = 0
    /\ tpc = [t \in 1..MaxStarts |-> "none"]
    /\ conn = [t \in 1..MaxStarts |-> "none"]
    /\ main = "ready"
    /\ starts = 0
    /\ closes = 0
    /\ n_open = 0
    /\ n_close = 0
    /\ n_message = 0
    /\ n_error = 0
    /\ data = [t \in 1..MaxStarts |-> 0]
    /\ received = <<>>
    /\ delivered = <<>>
    /\ pings = <<>>
    /\ n_joined = 0
    /\ sent = <<>>
    /\ at_stop = NoStop

\* a WebsocketClient that is built and never started
NoWebsocket ==
    /\ InitWebsocket
    /\ error_callback = "on_error"
    /\ transport = "any"
    /\ auth = FALSE

\* no request made yet and no paginated fetch
NoFetch ==
    /\ response = NoResponse
    /\ raised = None
    /\ endpoint = None
    /\ params = [before |-> None, after |-> None, limit |-> None]
    /\ results = <<>>
    /\ idx = 0
    /\ yielded = <<>>
    /\ asked = 0
    /\ exchanges = <<>>
    /\ fetch_error = None

\* a client built with any burst_size and rate_limit, used by NumCallers threads
Init ==
    /\ NoWebsocket
    /\ InitClient(0..MaxRate, 1..MaxRate, 1..NumCallers)
    /\ horizon = MaxTime
    /\ kind = [c \in callers |-> "direct"]
    /\ pc = [c \in callers |-> "idle"]
    /\ calls_left = MaxCalls
    /\ NoFetch

Next ==
    \/ \E c \in callers : send_message_begin(c)
    \/ \E c \in callers : rate_limit_enter(c)
    \/ \E c \in callers : rate_limit_loop(c)
    \/ \E c \in callers : rate_limit_sleep(c)
    \/ \E c \in callers : rate_limit_wake(c)
    \/ \E c \in callers : send_message_request(c)
    \/ Tick

Spec == Init /\ [][Next]_vars


\* one paginated fetch, with or without `before` and `after`, next to a
\* thread of direct requests on the same limiter
InitPag ==
    /\ NoWebsocket
    /\ InitClient(0..1, {1}, {1, 2})
    /\ horizon = 2 * refill_period
    /\ kind = [c \in callers |-> IF c = 1 THEN "paged" ELSE "direct"]
    /\ pc = [c \in callers |-> IF c = 1 THEN "unstarted" ELSE "idle"]
    /\ calls_left = 1
    /\ response = NoResponse
    /\ raised = None
    /\ endpoint \in Endpoints
    /\ params \in [before : {None, "B"}, after : {None, "A"}, limit : {None, "1"}]
    /\ results = <<>>
    /\ idx = 0
    /\ yielded = <<>>
    /\ asked = 0
    /\ exchanges = <<>>
    /\ fetch_error = None

NextPag ==
    \/ \E c \in callers : paginated_start(c)
    \/ \E c \in callers : paginated_request(c)
    \/ \E c \in callers : paginated_resume(c)
    \/ \E c \in callers : paginated_close(c)
    \/ \E c \in callers : send_message_begin(c)
    \/ \E c \in callers : rate_limit_enter(c)
    \/ \E c \in callers : rate_limit_loop(c)
    \/ \E c \in callers : rate_limit_sleep(c)
    \/ \E c \in callers : rate_limit_wake(c)
    \/ \E c \in callers : send_message_request(c)
    \/ Tick

SpecPag == InitPag /\ [][NextPag]_vars


\* five threads that called rate_limit() at the same instant, time 0, on a
\* limiter with burst_size=1 and rate_limit=1
InitT3 ==
    /\ NoWebsocket
    /\ InitClient({1}, {1}, 1..5)
    /\ horizon = 4 * refill_period + 1
    /\ kind = [c \in callers |-> "direct"]
    /\ pc = [c \in callers |-> "lock"]
    /\ calls_left = 0
    /\ NoFetch

NextT3 ==
    \/ \E c \in callers : rate_limit_enter(c)
    \/ \E c \in callers : rate_limit_loop(c)
    \/ \E c \in callers : rate_limit_sleep(c)
    \/ \E c \in callers : rate_limit_wake(c)
    \/ \E c \in callers : send_message_request(c)
    \/ Tick

SpecT3 == InitT3 /\ [][NextT3]_vars

\* time passes while a caller sleeps, however late it is
Tick_asleep ==
    /\ now >= horizon
    /\ \E c \in callers : pc[c] = "sleep" /\ wake[c] > now
    /\ now' = now + 1
    /\ UNCHANGED <<configVars, lock, token_bucket, pc, wake, calls_left, grants,
                   credits, response, raised, pagVars, otherVars>>

\* NumCallers threads that have called rate_limit() on a limiter with
\* burst_size >= 1 and rate_limit >= 1; time advances, the lock is granted
\* fairly to the threads that wait for it, and every thread keeps running
InitLive ==
    /\ NoWebsocket
    /\ InitClient(1..MaxRate, 1..MaxRate, 1..NumCallers)
    /\ horizon = refill_period
    /\ kind = [c \in callers |-> "direct"]
    /\ pc = [c \in callers |-> "lock"]
    /\ calls_left = 0
    /\ NoFetch

NextLive ==
    \/ \E c \in callers : rate_limit_enter(c)
    \/ \E c \in callers : rate_limit_loop(c)
    \/ \E c \in callers : rate_limit_sleep(c)
    \/ \E c \in callers : rate_limit_wake(c)
    \/ Tick
    \/ Tick_asleep

FairLive ==
    /\ WF_vars(Tick \/ Tick_asleep)
    /\ \A c \in 1..NumCallers :
          /\ SF_vars(rate_limit_enter(c))
          /\ WF_vars(rate_limit_loop(c))
          /\ WF_vars(rate_limit_sleep(c))
          /\ WF_vars(rate_limit_wake(c))

SpecLive == InitLive /\ [][NextLive]_vars /\ FairLive

\* reduce() called on the bucket by itself, with any number of tokens
bucket_reduce(tokens) ==
    /\ bucket_call.reduces < MaxCalls
    /\ token_bucket' = reduce(token_bucket, now, tokens).bucket
    /\ bucket_call' = [op |-> "reduce", tokens |-> tokens, at |-> now,
                       before |-> token_bucket,
                       result |-> IF reduce(token_bucket, now, tokens).ok THEN 1 ELSE 0,
                       reduces |-> bucket_call.reduces + 1]
    /\ UNCHANGED <<now, configVars, lock, pc, wake, calls_left, grants, credits,
                   response, raised, pagVars, wsVars, reference, n_spent,
                   n_spent_reference, authVars>>

\* get() that stores the refill it counts
bucket_get_refilling ==
    /\ token_bucket' = refilled(token_bucket, now)
    /\ bucket_call' = [op |-> "get", tokens |-> 0, at |-> now, before |-> token_bucket,
                       result |-> get(token_bucket, now),
                       reduces |-> bucket_call.reduces]
    /\ UNCHANGED <<now, configVars, lock, pc, wake, calls_left, grants, credits,
                   response, raised, pagVars, wsVars, reference, n_spent,
                   n_spent_reference, authVars>>

\* get() called on the bucket by itself: it changes nothing
bucket_get ==
    /\ bucket_call' = [op |-> "get", tokens |-> 0, at |-> now, before |-> token_bucket,
                       result |-> get(token_bucket, now),
                       reduces |-> bucket_call.reduces]
    /\ UNCHANGED <<restVars, pagVars, wsVars, reference, n_spent, n_spent_reference,
                   authVars>>

\* time_to_next_token() called on the bucket by itself: it changes nothing
bucket_time_to_next_token ==
    /\ bucket_call' = [op |-> "time_to_next_token", tokens |-> 0, at |-> now,
                       before |-> token_bucket,
                       result |-> time_to_next_token(token_bucket, now),
                       reduces |-> bucket_call.reduces]
    /\ UNCHANGED <<restVars, pagVars, wsVars, reference, n_spent, n_spent_reference,
                   authVars>>

\* a TokenBucket of any capacity and refill amount, built at time 0 and then
\* read and reduced at any times
InitBucket ==
    /\ NoWebsocket
    /\ InitClient(1..MaxRate, 1..(MaxRate + 2), {})
    /\ horizon = MaxTime
    /\ kind = << >>
    /\ pc = << >>
    /\ calls_left = 0
    /\ NoFetch

NextBucket ==
    \/ \E tokens \in 0..MaxTokens : bucket_reduce(tokens)
    \/ bucket_get
    \/ bucket_time_to_next_token
    \/ Tick

SpecBucket == InitBucket /\ [][NextBucket]_vars

\* the reference refill: whole periods are added and the count is capped,
\* last_update moves by whole periods only
refilled_reference(b, t) ==
    LET n == refill_count(b, t)
        v == b.value + n * b.refill_amount
    IN  [b EXCEPT !.value = IF v > b.max_amount THEN b.max_amount ELSE v,
                  !.last_update = b.last_update + n * refill_period]

\* a spend on the reference bucket
reduce_reference(b, t, tokens) ==
    LET b2 == refilled_reference(b, t)
    IN  IF tokens > b2.value
        THEN [ok |-> FALSE, bucket |-> b2]
        ELSE [ok |-> TRUE, bucket |-> [b2 EXCEPT !.value = b2.value - tokens]]

\* reduce(1) on the bucket, and the same spend at the same time on the
\* reference bucket
reduce_both ==
    /\ bucket_call.reduces < MaxSpends
    /\ LET r == reduce(token_bucket, now, 1)
           q == reduce_reference(reference, now, 1)
       IN  /\ token_bucket' = r.bucket
           /\ reference' = q.bucket
           /\ n_spent' = n_spent + (IF r.ok THEN 1 ELSE 0)
           /\ n_spent_reference' = n_spent_reference + (IF q.ok THEN 1 ELSE 0)
           /\ bucket_call' = [op |-> "reduce", tokens |-> 1, at |-> now,
                              before |-> token_bucket,
                              result |-> IF r.ok THEN 1 ELSE 0,
                              reduces |-> bucket_call.reduces + 1]
    /\ UNCHANGED <<now, configVars, lock, pc, wake, calls_left, grants, credits,
                   response, raised, pagVars, wsVars, authVars>>

\* a TokenBucket and the reference bucket, built alike at time 0, and the
\* same reduce(1) calls made on both at any times
InitReference == InitBucket

NextReference ==
    \/ reduce_both
    \/ Tick

SpecReference == InitReference /\ [][NextReference]_vars

(* ------------------------- websocket_client.py ------------------------- *)
restAll == <<restVars, pagVars, bucketVars, authVars>>

\* what is fixed when the WebsocketClient and its transport are chosen
wsConfig == <<error_callback, transport, auth>>

\* a Thread whose target has returned or was ended by an exception
Ended(t) == tpc[t] \in {"exited", "died"}

\* a Thread that was started and has not ended
Running(t) == tpc[t] \notin {"none", "exited", "died"}

\* time.time(): the wall clock, far from 0 when the program runs
time_time == WallClockAtStart + now

\* the transports tried: "any" may raise at every call, the mock
\* "errors_on_3rd_receive" raises at its 3rd recv() and nowhere else
Transports == {"any", "errors_on_3rd_receive"}

\* the recv() calls made so far on the mock, whose other calls never raise
n_recv == Len(received) + n_error

\* whether this call of create_connection / send / ping / recv may return
may_return(call) == transport = "any" \/ ~(call = "recv" /\ n_recv = 2)

\* whether this call of create_connection / send / ping / recv may raise
may_raise(call) == transport = "any" \/ (call = "recv" /\ n_recv = 2)

\* the frame the feed delivers as its i-th
Payload(i) == i

\* start that calls _connect itself before it starts the Thread
start_in_caller ==
    /\ main = "ready"
    /\ starts < MaxStarts
    /\ starts' = starts + 1
    /\ stop' = FALSE
    /\ at_stop' = NoStop
    /\ n_open' = n_open + 1
    /\ thread' = starts + 1
    /\ ws' = starts + 1
    /\ conn' = [conn EXCEPT ![starts + 1] = "open"]
    /\ tpc' = [tpc EXCEPT ![starts + 1] = "subscribe"]
    /\ UNCHANGED <<main, closes, n_close, n_message, n_error, data, received,
                   delivered, pings, sent, n_joined, wsConfig, restAll>>

\* WebsocketClient.start: stop = False, on_open(), a new Thread is started
start ==
    /\ main = "ready"
    /\ starts < MaxStarts
    /\ starts' = starts + 1
    /\ stop' = FALSE
    /\ at_stop' = NoStop
    /\ n_open' = n_open + 1
    /\ thread' = starts + 1
    /\ tpc' = [tpc EXCEPT ![starts + 1] = "connect"]
    /\ UNCHANGED <<ws, conn, main, closes, n_close, n_message, n_error, data, received,
                   delivered, pings, sent, n_joined, wsConfig, restAll>>

\* the fields _connect adds to the subscribe message when auth is set
AuthFields == {"signature", "key", "passphrase", "timestamp"}

\* sub_params without the `if self.auth:` block
sub_params_unsigned(a) == {"type", "product_ids", "channels"}

\* _connect: the keys of sub_params
sub_params(a) ==
    {"type", "product_ids", "channels"} \cup (IF a THEN AuthFields ELSE {})

\* _connect up to create_connection(self.url), which opens a transport and
\* stores it in self.ws, or raises and ends the Thread; with auth,
\* base64.b64decode(self.secret) can raise before it and end the Thread too
thread_connect(t) ==
    /\ tpc[t] = "connect"
    /\ \/ /\ may_return("create_connection")
          /\ ws' = t
          /\ conn' = [conn EXCEPT ![t] = "open"]
          /\ tpc' = [tpc EXCEPT ![t] = "subscribe"]
       \/ /\ may_raise("create_connection") \/ auth
          /\ tpc' = [tpc EXCEPT ![t] = "died"]
          /\ UNCHANGED <<ws, conn>>
    /\ UNCHANGED <<stop, thread, main, starts, closes, n_open, n_close, n_message,
                   n_error, data, received, delivered, pings, sent, at_stop, n_joined,
                   wsConfig,
                   restAll>>

\* _connect: self.ws.send(json.dumps(sub_params)), which raises on a closed
\* transport and may raise on an open one
thread_subscribe(t) ==
    /\ tpc[t] = "subscribe"
    /\ \/ /\ conn[ws] = "open"
          /\ may_return("send")
          /\ sent' = Append(sent, sub_params(auth))
          /\ tpc' = [tpc EXCEPT ![t] = "listen"]
       \/ /\ may_raise("send") \/ conn[ws] # "open"
          /\ tpc' = [tpc EXCEPT ![t] = "died"]
          /\ UNCHANGED sent
    /\ UNCHANGED <<stop, ws, thread, conn, main, starts, closes, n_open, n_close,
                   n_message, n_error, data, received, delivered, pings, n_joined,
                   at_stop, wsConfig, restAll>>

\* a loop test that never ends the loop
keep_listening_always(s) == TRUE

\* `while not self.stop`
keep_listening(s) == ~s

\* _listen: the test `while not self.stop`
thread_listen(t) ==
    /\ tpc[t] = "listen"
    /\ tpc' = [tpc EXCEPT ![t] = IF keep_listening(stop) THEN "ping" ELSE "disconnect"]
    /\ UNCHANGED <<stop, ws, thread, conn, main, starts, closes, n_open, n_close,
                   n_message, n_error, data, received, delivered, pings, sent, at_stop,
                   n_joined,
                   wsConfig, restAll>>

\* on_error with `self.stop = True` left out
on_error_without_stop ==
    /\ n_error' = n_error + 1
    /\ stop' = stop

\* self.on_error(e): WebsocketClient.on_error sets self.stop; a subclass that
\* overrides on_error runs its own code, which need not set it
on_error ==
    /\ n_error' = n_error + 1
    /\ stop' = IF error_callback = "on_error" THEN TRUE ELSE stop

\* _listen: start_t = 0, then the keepalive test on time.time() - start_t and
\* self.ws.ping; an exception goes to on_error
thread_ping(t) ==
    /\ tpc[t] = "ping"
    /\ LET start_t == 0
       IN  IF time_time - start_t >= keepalive_timer
           THEN \/ /\ conn[ws] = "open"
                   /\ may_return("ping")
                   /\ pings' = Append(pings, now)
                   /\ tpc' = [tpc EXCEPT ![t] = "recv"]
                   /\ UNCHANGED <<stop, n_error>>
                \/ /\ may_raise("ping") \/ conn[ws] # "open"
                   /\ n_error < MaxErrors
                   /\ on_error
                   /\ tpc' = [tpc EXCEPT ![t] = "listen"]
                   /\ UNCHANGED pings
           ELSE /\ tpc' = [tpc EXCEPT ![t] = "recv"]
                /\ UNCHANGED <<stop, n_error, pings>>
    /\ UNCHANGED <<ws, thread, conn, main, starts, closes, n_open, n_close, n_message,
                   data, received, delivered, n_joined, sent, at_stop, wsConfig, restAll>>

\* _listen: data = self.ws.recv(), or on_error(e)
thread_recv(t) ==
    /\ tpc[t] = "recv"
    /\ \/ /\ conn[ws] = "open"
          /\ may_return("recv")
          /\ Len(received) < MaxMessages
          /\ received' = Append(received, Payload(Len(received) + 1))
          /\ data' = [data EXCEPT ![t] = Payload(Len(received) + 1)]
          /\ tpc' = [tpc EXCEPT ![t] = "message"]
          /\ UNCHANGED <<stop, n_error>>
       \/ /\ may_raise("recv") \/ conn[ws] # "open"
          /\ n_error < MaxErrors
          /\ on_error
          /\ tpc' = [tpc EXCEPT ![t] = "listen"]
          /\ UNCHANGED <<data, received>>
    /\ UNCHANGED <<ws, thread, conn, main, starts, closes, n_open, n_close, n_message,
                   delivered, pings, sent, at_stop, n_joined, wsConfig, restAll>>

\* msg_of with the payload replaced by the first frame's
msg_of_first(d) == Payload(1)

\* _listen: msg = data
msg_of(d) == d

\* _listen: the else branch, self.on_message(msg), run by the Thread
thread_message(t) ==
    /\ tpc[t] = "message"
    /\ delivered' = Append(delivered, [msg |-> msg_of(data[t]), by |-> t])
    /\ n_message' = n_message + 1
    /\ tpc' = [tpc EXCEPT ![t] = "listen"]
    /\ UNCHANGED <<stop, ws, thread, conn, main, starts, closes, n_open, n_close,
                   n_error, data, received, pings, sent, at_stop, n_joined, wsConfig, restAll>>

\* _disconnect: self.ws.close(), then close() up to self.thread.join()
thread_disconnect(t) ==
    /\ tpc[t] = "disconnect"
    /\ conn' = IF ws # 0 THEN [conn EXCEPT ![ws] = "closed"] ELSE conn
    /\ stop' = TRUE
    /\ tpc' = [tpc EXCEPT ![t] = "join"]
    /\ UNCHANGED <<ws, thread, main, starts, closes, n_open, n_close, n_message,
                   n_error, data, received, delivered, pings, sent, at_stop, n_joined,
                   wsConfig,
                   restAll>>

\* close() in the Thread with a join on itself that waits for the Thread
thread_close_waiting(t) ==
    /\ tpc[t] = "join"
    /\ Ended(thread)
    /\ n_close' = n_close + 1
    /\ tpc' = [tpc EXCEPT ![t] = "exited"]
    /\ UNCHANGED <<stop, ws, thread, conn, main, starts, closes, n_open, n_message,
                   n_error, data, received, delivered, pings, sent, at_stop, n_joined,
                   wsConfig, restAll>>

\* close() called by _disconnect: self.thread.join() raises at once when
\* self.thread is the Thread itself and else waits for it; then on_close()
thread_close(t) ==
    /\ tpc[t] = "join"
    /\ thread = t \/ Ended(thread)
    /\ n_close' = n_close + 1
    /\ tpc' = [tpc EXCEPT ![t] = "exited"]
    /\ UNCHANGED <<stop, ws, thread, conn, main, starts, closes, n_open, n_message,
                   n_error, data, received, delivered, pings, sent, at_stop, n_joined,
                   wsConfig,
                   restAll>>

\* close() called by the caller, up to self.thread.join(); with no Thread
\* the join raises, the exception is logged and on_close() is called
close ==
    /\ main = "ready"
    /\ closes < MaxCloses
    /\ closes' = closes + 1
    /\ stop' = TRUE
    /\ at_stop' = IF at_stop.called THEN at_stop
                  ELSE [called |-> TRUE, pings |-> Len(pings),
                        received |-> Len(received), delivered |-> n_message]
    /\ IF thread = 0
       THEN /\ n_close' = n_close + 1
            /\ UNCHANGED main
       ELSE /\ main' = "joining"
            /\ UNCHANGED n_close
    /\ UNCHANGED <<ws, thread, tpc, conn, starts, n_open, n_message, n_error, data,
                   received, delivered, pings, sent, n_joined, wsConfig, restAll>>

\* close() called by the caller: self.thread.join() returns, then on_close()
close_joined ==
    /\ main = "joining"
    /\ Ended(thread)
    /\ main' = "ready"
    /\ n_close' = n_close + 1
    /\ n_joined' = n_joined + 1
    /\ UNCHANGED <<stop, ws, thread, tpc, conn, starts, closes, n_open, n_message,
                   n_error, data, received, delivered, pings, sent, at_stop, wsConfig,
                   restAll>>

\* no REST client next to the WebsocketClient
NoClient ==
    /\ InitClient({0}, {1}, {})
    /\ kind = << >>
    /\ pc = << >>
    /\ calls_left = 0
    /\ NoFetch

\* a WebsocketClient that nothing was called on yet
InitWS ==
    /\ InitWebsocket
    /\ error_callback = "on_error"
    /\ transport = "any"
    /\ auth = FALSE
    /\ NoClient
    /\ horizon = 0

NextWS ==
    \/ start
    \/ close
    \/ close_joined
    \/ \E t \in 1..MaxStarts : thread_connect(t)
    \/ \E t \in 1..MaxStarts : thread_subscribe(t)
    \/ \E t \in 1..MaxStarts : thread_listen(t)
    \/ \E t \in 1..MaxStarts : thread_ping(t)
    \/ \E t \in 1..MaxStarts : thread_recv(t)
    \/ \E t \in 1..MaxStarts : thread_message(t)
    \/ \E t \in 1..MaxStarts : thread_disconnect(t)
    \/ \E t \in 1..MaxStarts : thread_close(t)

SpecWS == InitWS /\ [][NextWS]_vars


\* one session: start() is called once on the WebsocketClient, over any
\* transport, with on_error as written or overridden, while time passes
InitSession ==
    /\ InitWebsocket
    /\ error_callback \in {"on_error", "override"}
    /\ transport = "any"
    /\ auth \in BOOLEAN
    /\ NoClient
    /\ horizon = MaxPeriods

NextSession ==
    \/ (starts = 0 /\ start)
    \/ close
    \/ close_joined
    \/ thread_connect(1)
    \/ thread_subscribe(1)
    \/ thread_listen(1)
    \/ thread_ping(1)
    \/ thread_recv(1)
    \/ thread_message(1)
    \/ thread_disconnect(1)
    \/ thread_close(1)
    \/ Tick

SpecSession == InitSession /\ [][NextSession]_vars


\* one session of a WebsocketClient as written over the mock transport that
\* errors on its 3rd receive; the scheduler lets the Thread run, and a join
\* return once it can
InitT6 ==
    /\ InitWebsocket
    /\ error_callback = "on_error"
    /\ transport = "errors_on_3rd_receive"
    /\ auth = FALSE
    /\ NoClient
    /\ horizon = 0

NextT6 ==
    \/ (starts = 0 /\ start)
    \/ close
    \/ close_joined
    \/ thread_connect(1)
    \/ thread_subscribe(1)
    \/ thread_listen(1)
    \/ thread_ping(1)
    \/ thread_recv(1)
    \/ thread_message(1)
    \/ thread_disconnect(1)
    \/ thread_close(1)

ThreadStep ==
    \/ thread_connect(1)
    \/ thread_subscribe(1)
    \/ thread_listen(1)
    \/ thread_ping(1)
    \/ thread_recv(1)
    \/ thread_message(1)
    \/ thread_disconnect(1)
    \/ thread_close(1)

SpecT6 == InitT6 /\ [][NextT6]_vars /\ WF_vars(ThreadStep) /\ WF_vars(close_joined)

\* one session of a WebsocketClient as written over any transport, with or
\* without auth; the scheduler lets the Thread run, and a join return once
\* it can
InitShutdown ==
    /\ InitWebsocket
    /\ error_callback = "on_error"
    /\ transport = "any"
    /\ auth \in BOOLEAN
    /\ NoClient
    /\ horizon = 0

SpecShutdown ==
    InitShutdown /\ [][NextT6]_vars /\ WF_vars(ThreadStep) /\ WF_vars(close_joined)

(* ----------------------------- auth_client.py -------------------------- *)
\* what a request to an authenticated endpoint leaves alone: the public
\* limiter, the direct responses, the fetch and everything else
authOther == <<now, configVars, lock, token_bucket, grants, response, raised, pagVars,
               wsVars, bucketVars, auth_rate_limit, auth_burst_size, a_limiter_on>>

\* a_begin_request that hands the request to the public limiter
a_begin_request_public == begin_request

\* _send_message(..., rate_limiter=self.a_rate_limiter) at `if rate_limiter:`:
\* where a request to an authenticated endpoint starts
a_begin_request == IF a_limiter_on THEN "a_lock" ELSE "a_request"

\* an AuthenticatedClient method calls _send_message with
\* rate_limiter=self.a_rate_limiter
a_send_message_begin(c) ==
    /\ kind[c] = "auth"
    /\ pc[c] = "idle"
    /\ calls_left > 0
    /\ calls_left' = calls_left - 1
    /\ pc' = [pc EXCEPT ![c] = a_begin_request]
    /\ UNCHANGED <<authOther, a_lock, a_token_bucket, a_grants, wake, credits>>

\* a_rate_limiter.rate_limit: `with self.lock:` entered
a_rate_limit_enter(c) ==
    /\ pc[c] = "a_lock"
    /\ a_lock = 0
    /\ a_lock' = c
    /\ pc' = [pc EXCEPT ![c] = "a_loop"]
    /\ UNCHANGED <<authOther, a_token_bucket, a_grants, wake, credits, calls_left>>

\* a_rate_limiter.rate_limit: one evaluation of `while not reduce(tokens=1)`
a_rate_limit_loop(c) ==
    /\ pc[c] \in {"a_loop", "a_retry"}
    /\ LET r == reduce(a_token_bucket, now, 1)
       IN  /\ a_token_bucket' = r.bucket
           /\ IF r.ok
              THEN /\ a_lock' = 0
                   /\ pc' = [pc EXCEPT ![c] = "a_request"]
                   /\ a_grants' = Append(a_grants, now)
                   /\ credits' = [credits EXCEPT ![c] = @ + 1]
              ELSE /\ pc' = [pc EXCEPT ![c] = "a_timing"]
                   /\ UNCHANGED <<a_lock, a_grants, credits>>
    /\ UNCHANGED <<authOther, wake, calls_left>>

\* a_rate_limiter.rate_limit: time.sleep(self.token_bucket.time_to_next_token())
\* with a_rate_limiter's lock held; a ValueError of time.sleep releases it
a_rate_limit_sleep(c) ==
    /\ pc[c] = "a_timing"
    /\ LET secs == time_to_next_token(a_token_bucket, now)
       IN  IF sleep_raises(secs)
           THEN /\ a_lock' = 0
                /\ pc' = [pc EXCEPT ![c] = "idle"]
                /\ UNCHANGED wake
           ELSE /\ pc' = [pc EXCEPT ![c] = "a_sleep"]
                /\ wake' = [wake EXCEPT ![c] = now + secs]
                /\ UNCHANGED a_lock
    /\ UNCHANGED <<authOther, a_token_bucket, a_grants, credits, calls_left>>

\* time.sleep() returns, no earlier than asked, and the loop tests again
a_rate_limit_wake(c) ==
    /\ pc[c] = "a_sleep"
    /\ now >= wake[c]
    /\ pc' = [pc EXCEPT ![c] = "a_retry"]
    /\ wake' = [wake EXCEPT ![c] = 0]
    /\ UNCHANGED <<authOther, a_lock, a_token_bucket, a_grants, credits, calls_left>>

\* _send_message: session.request(..., auth=self.auth) and the return
a_send_message_request(c) ==
    /\ kind[c] = "auth"
    /\ pc[c] = "a_request"
    /\ credits' = [credits EXCEPT ![c] = @ - 1]
    /\ pc' = [pc EXCEPT ![c] = "idle"]
    /\ UNCHANGED <<authOther, a_lock, a_token_bucket, a_grants, wake, calls_left>>

\* the threads take turns: one calls the public endpoints, the next the
\* authenticated ones
CallerKinds == [c \in 1..NumCallers |-> IF c % 2 = 1 THEN "direct" ELSE "auth"]

\* AuthenticatedClient.__init__ at time 0 with any two rate limits, and the
\* threads that will use the client
InitAuth ==
    /\ NoWebsocket
    /\ PublicClient(0..MaxRate, {1}, 1..NumCallers)
    /\ auth_rate_limit \in 0..MaxRate
    /\ auth_burst_size = 1
    /\ a_limiter_on = has_rate_limiter(auth_rate_limit)
    /\ a_lock = 0
    /\ a_token_bucket = RateLimiter(auth_burst_size, auth_rate_limit, 0)
    /\ a_grants = <<>>
    /\ horizon = refill_period + 1
    /\ kind = CallerKinds
    /\ pc = [c \in callers |-> "idle"]
    /\ calls_left = MaxCalls
    /\ NoFetch

NextAuth ==
    \/ \E c \in callers : send_message_begin(c)
    \/ \E c \in callers : rate_limit_enter(c)
    \/ \E c \in callers : rate_limit_loop(c)
    \/ \E c \in callers : rate_limit_sleep(c)
    \/ \E c \in callers : rate_limit_wake(c)
    \/ \E c \in callers : send_message_request(c)
    \/ \E c \in callers : a_send_message_begin(c)
    \/ \E c \in callers : a_rate_limit_enter(c)
    \/ \E c \in callers : a_rate_limit_loop(c)
    \/ \E c \in callers : a_rate_limit_sleep(c)
    \/ \E c \in callers : a_rate_limit_wake(c)
    \/ \E c \in callers : a_send_message_request(c)
    \/ Tick

SpecAuth == InitAuth /\ [][NextAuth]_vars

(* ------------------------------ claims --------------------------------- *)
\* C1: with burst_size B >= 1 and rate_limit R >= 1, any window of k refill
\* periods holds at most B + k*R returns of rate_limit(), whatever the callers do
C1_RateBound ==
    limiter_on =>
        \A i, j \in 1..Len(grants) : \A k \in 0..(horizon \div refill_period + 1) :
            (i <= j /\ grants[j] - grants[i] <= k * refill_period)
                => j - i + 1 <= burst_size + k * rate_limit

\* a window of one period that the returns fill up to the bound, after a wait
C1_Witness ==
    /\ limiter_on
    /\ \E i, j \in 1..Len(grants) :
          /\ grants[i] < grants[j]
          /\ grants[j] - grants[i] <= refill_period
          /\ j - i + 1 = burst_size + rate_limit

\* C2: burst_size=1, rate_limit=1, five rate_limit() calls made at time 0:
\* the fifth return comes no earlier than 4 refill periods later, and each
\* return at least one period after the one before
C2_FiveCallsTakeFourPeriods ==
    /\ Len(grants) = 5 => grants[5] >= 4 * refill_period
    /\ \A i \in 1..Len(grants) : grants[i] >= (i - 1) * refill_period
    /\ \A i \in 1..(Len(grants) - 1) : grants[i + 1] >= grants[i] + refill_period

\* all five have returned, the first at once and the fifth exactly 4 periods later
C2_Witness ==
    /\ burst_size = 1 /\ rate_limit = 1 /\ Cardinality(callers) = 5
    /\ Len(grants) = 5
    /\ grants[1] = 0
    /\ grants[5] = 4 * refill_period

\* C4: with rate_limit = 0 the client has no limiter: no caller ever waits for
\* the lock, spends from the bucket or sleeps, and no request waits for another
C4_DisabledLimiterIsNoOp ==
    rate_limit = 0 =>
        /\ ~limiter_on
        /\ lock = 0
        /\ \A c \in callers : pc[c] \in {"idle", "request"}
        /\ grants = <<>>
        /\ token_bucket = RateLimiter(burst_size, rate_limit, 0)

\* every allowed request was made at time 0, more than burst_size of them
C4_Witness ==
    /\ rate_limit = 0
    /\ now = 0
    /\ calls_left = 0
    /\ MaxCalls > burst_size
    /\ \A c \in callers : pc[c] = "idle"


(* ---------------------- claims on the paginated fetch ------------------ *)
\* the thread that runs the paginated fetch
Fetcher == CHOOSE c \in callers : kind[c] = "paged"

\* the exceptions of exceptions.py
TaxonomyErrors ==
    {"BadRequest", "InvalidAPIKey", "InvalidAuthorization", "RateLimitError",
     "CoinbaseAPIError"}

\* the items of the first n pages fetched, those of pages that raised left out
RECURSIVE ItemsOfPages(_)
ItemsOfPages(n) ==
    IF n = 0 THEN <<>>
    ELSE ItemsOfPages(n - 1) \o
         (IF request_outcome(exchanges[n].response) = None
          THEN exchanges[n].response.items ELSE <<>>)

Acquiring(c) == pc[c] \in {"lock", "loop", "timing", "sleep", "retry"}

\* C3: with a limiter, every request of a direct call and every page request
\* of a paginated fetch uses up exactly one returned rate_limit() of its own
\* thread: a thread holds one unused return while it is about to issue its
\* request and none otherwise, an empty page included
C3_OneAcquirePerRequest ==
    limiter_on =>
        /\ \A c \in callers : credits[c] = IF pc[c] = "request" THEN 1 ELSE 0
        /\ Len(grants) >= Len(exchanges)

\* a direct request and two page requests, one answered by an empty page
C3_Witness ==
    /\ limiter_on
    /\ Len(exchanges) = 2
    /\ exchanges[1].response.items = <<>>
    /\ exchanges[1].response.status_code = 200
    /\ Len(grants) = 3
    /\ \A c \in callers : credits[c] = 0

T4Pages ==
    << Response(200, "list", <<"a", "b">>, "X"), Response(200, "list", <<"c">>, "X"),
       Response(200, "list", <<>>, NoCursor) >>

\* C5: a fetch without `before` answered by [a,b] with cursor X, [c] with cursor
\* X again and [] without cursor has yielded a, b, c and ended without error;
\* and after any page that parsed and carries no cursor the fetch requests
\* nothing more, and has ended without error once the consumer asked again
C5_EndsWithoutCursor ==
    /\ (/\ params.before = None
        /\ Len(exchanges) = 3
        /\ \A i \in 1..3 : exchanges[i].response = T4Pages[i])
       => (pc[Fetcher] = "done" /\ fetch_error = None /\ yielded = <<"a", "b", "c">>)
    /\ \A n \in 1..Len(exchanges) :
          (/\ request_outcome(exchanges[n].response) = None
           /\ exchanges[n].response.cb_after = NoCursor)
          => /\ n = Len(exchanges)
             /\ pc[Fetcher] \in {"suspended", "done", "closed"}
             /\ fetch_error = None
             /\ pc[Fetcher] = "suspended" => asked = Len(yielded)
             /\ pc[Fetcher] = "done" => yielded = ItemsOfPages(n)

C5_Witness ==
    /\ limiter_on
    /\ params.before = None
    /\ Len(exchanges) = 3
    /\ \A i \in 1..3 : exchanges[i].response = T4Pages[i]
    /\ pc[Fetcher] = "done"

\* C6: a fetch whose params include `before` issues one request at most, and
\* when it has ended it has yielded the items of that page and nothing else
C6_BeforeFetchesOnePage ==
    params.before # None =>
        /\ Len(exchanges) <= 1
        /\ Len(exchanges) = 1 => ~Acquiring(Fetcher) /\ pc[Fetcher] # "request"
        /\ pc[Fetcher] \in {"suspended", "done", "closed"} => Len(exchanges) = 1
        /\ pc[Fetcher] = "failed" => Len(exchanges) = 1 \/ fetch_error = "ValueError"
        /\ pc[Fetcher] = "done" => yielded = exchanges[1].response.items
        /\ Len(exchanges) = 0 => yielded = <<>>
        /\ Len(exchanges) = 1 =>
              yielded = SubSeq(exchanges[1].response.items, 1, Len(yielded))

\* the one page came with a cursor and the fetch has ended
C6_Witness ==
    /\ params.before # None
    /\ Len(exchanges) = 1
    /\ exchanges[1].response.cb_after = "X"
    /\ pc[Fetcher] = "done"
    /\ yielded = <<"a", "b">>

\* C7, in every state: while the fetch waits for a credit or is about to issue
\* a request, every item of every page fetched so far has been handed to the
\* consumer and the consumer has asked for one more
C7_PageYieldedBeforeNext ==
    /\ (Acquiring(Fetcher) \/ pc[Fetcher] = "request") =>
          /\ idx = Len(results)
          /\ yielded = ItemsOfPages(Len(exchanges))
          /\ asked = Len(yielded) + 1
    /\ Len(exchanges) > 0 =>
          \E m \in 0..Len(results) :
              yielded = ItemsOfPages(Len(exchanges) - 1) \o SubSeq(results, 1, m)

\* C7, in every step: once the consumer has stopped iterating, the fetch issues
\* no request and takes no credit
C7_ClosedFetchIsOver ==
    pc[Fetcher] = "closed" =>
        /\ pc'[Fetcher] = "closed"
        /\ exchanges' = exchanges
        /\ credits'[Fetcher] = credits[Fetcher]

\* C7: pagination is lazy and strictly ordered
C7_LazyPagination == [](C7_PageYieldedBeforeNext) /\ [][C7_ClosedFetchIsOver]_vars

\* the fetch sleeps for the credit of page 2 after a and b were handed over
C7_Witness ==
    /\ limiter_on
    /\ pc[Fetcher] = "sleep"
    /\ Len(exchanges) = 1
    /\ yielded = <<"a", "b">>

\* the consumer stopped inside a page that came with a cursor
C7_WitnessClosed ==
    /\ pc[Fetcher] = "closed"
    /\ idx < Len(results)
    /\ exchanges[Len(exchanges)].response.cb_after # NoCursor
    /\ params.before = None


StatusCodes == 200..599

\* _check_errors_and_raise applied to the response
check_response ==
    /\ raised = "unchecked"
    /\ raised' = check_errors_and_raise(response)
    /\ UNCHANGED <<restNoPc_but_raised, pc, pagVars, otherVars>>

\* any response: every status code with every kind of body
InitErr ==
    /\ NoWebsocket
    /\ InitClient({0}, {1}, {})
    /\ horizon = 0
    /\ kind = << >>
    /\ pc = << >>
    /\ calls_left = 0
    /\ endpoint = None
    /\ params = [before |-> None, after |-> None, limit |-> None]
    /\ results = <<>>
    /\ idx = 0
    /\ yielded = <<>>
    /\ asked = 0
    /\ exchanges = <<>>
    /\ fetch_error = None
    /\ response \in { Response(st, b, <<>>, NoCursor) : st \in StatusCodes, b \in BodyKinds }
    /\ raised = "unchecked"

NextErr == check_response

SpecErr == InitErr /\ [][NextErr]_vars

\* the error the claim gives for a status code
ClaimedError(st) ==
    CASE st = 400 -> "BadRequest"
      [] st = 401 -> "InvalidAPIKey"
      [] st = 403 -> "InvalidAuthorization"
      [] st = 429 -> "RateLimitError"
      [] st \in 200..299 -> None
      [] OTHER -> "CoinbaseAPIError"

C10_OneBackgroundContext ==
    /\ Cardinality({t \in 1..MaxStarts : Running(t)}) <= 1
    /\ Cardinality({t \in 1..MaxStarts : tpc[t] # "none"}) <= 1

\* C11: once on_error was called for a failed ping or recv, stop is set
\* whatever on_error does, and the Thread makes no further ping or recv
C11_ErrorEndsSession ==
    /\ [](n_error >= 1 => stop)
    /\ [][n_error >= 1 =>
             \A t \in 1..MaxStarts : tpc[t] \in {"ping", "recv"} => tpc'[t] = tpc[t]]_vars

C13_CloseJoinsAndCloses ==
    (n_joined >= 1 /\ main = "ready") =>
        /\ stop
        /\ Ended(thread)
        /\ ws # 0 => conn[ws] = "closed"

\* C14: every failure of the transport reaches on_error on the Thread: no
\* exception of create_connection, send, ping or recv ends the Thread uncaught
C14_FailuresReachErrorCallback ==
    \A t \in 1..MaxStarts : tpc[t] = "died" => n_error >= 1

\* the StreamSession state the first Thread's position stands for; SUBSCRIBED
\* is passed inside the step in which send() returns, and a Thread ended by
\* an exception is in none of the six states
SessionState ==
    IF starts = 0 THEN "IDLE"
    ELSE CASE tpc[1] \in {"connect", "subscribe"} -> "CONNECTING"
           [] tpc[1] \in {"listen", "ping", "recv", "message"} -> "LISTENING"
           [] tpc[1] \in {"disconnect", "join"} -> "CLOSING"
           [] tpc[1] = "exited" -> "CLOSED"
           [] OTHER -> "NONE"

SessionChain == <<"IDLE", "CONNECTING", "SUBSCRIBED", "LISTENING", "CLOSING", "CLOSED">>

\* the place of a state in the chain, 0 for a state outside it
SessionRank(s) ==
    IF \E i \in 1..Len(SessionChain) : SessionChain[i] = s
    THEN CHOOSE i \in 1..Len(SessionChain) : SessionChain[i] = s
    ELSE 0

\* C15: a session is always in one of the six states and only ever stays in
\* its state or moves to the next one of the chain (through SUBSCRIBED at once)
C15_SessionMovesForward ==
    /\ [](SessionRank(SessionState) > 0)
    /\ [][\/ SessionRank(SessionState') = SessionRank(SessionState)
          \/ SessionRank(SessionState') = SessionRank(SessionState) + 1
          \/ SessionState = "CONNECTING" /\ SessionState' = "LISTENING"]_vars

\* C16: two consecutive pings of a session are at least keepalive_timer
\* apart: an iteration of _listen that starts sooner after a ping sends none
C16_PingsKeepaliveApart ==
    \A i \in 1..(Len(pings) - 1) : pings[i + 1] - pings[i] >= keepalive_timer

Min(a, b) == IF a < b THEN a ELSE b

\* the available count of bucket b at time t by the specification: the count
\* at the last update plus refill_amount for every whole period since, capped
Available(b, t) ==
    Min(b.max_amount, b.value + ((t - b.last_update) \div refill_period) * b.refill_amount)

\* C17: with a the available count at call time, reduce(n) returns False and
\* leaves a when n > a, and returns True and leaves a - n when n <= a
C17_SpendCorrect ==
    bucket_call.op = "reduce" =>
        LET a == Available(bucket_call.before, bucket_call.at)
            n == bucket_call.tokens
        IN  IF n > a
            THEN bucket_call.result = 0 /\ token_bucket.value = a
            ELSE bucket_call.result = 1 /\ token_bucket.value = a - n

\* a refused reduce() after a refill below the capacity, and the count kept
C17_Witness ==
    /\ bucket_call.op = "reduce"
    /\ bucket_call.result = 0
    /\ bucket_call.before.value < token_bucket.value
    /\ token_bucket.value < token_bucket.max_amount
    /\ bucket_call.tokens = token_bucket.value + 1

\* whole refill periods in the time from s to t
Periods(s, t) == (t - s) \div refill_period

\* C18 as stated: while nothing was spent, k full periods after the bucket
\* was built get() reports min(C, k*R)
C18_RefillFromNothing ==
    (bucket_call.op = "get" /\ bucket_call.reduces = 0) =>
        bucket_call.result =
            Min(token_bucket.max_amount,
                Periods(0, bucket_call.at) * token_bucket.refill_amount)

\* C18 amended: with v the count at the bucket's last update, k full periods
\* after that update get() reports min(C, v + k*R) and the next reduce()
\* spends from that count; a bucket nothing was spent from reports C
C18_RefillFromLastCount ==
    LET b == bucket_call.before
        a == Min(b.max_amount,
                 b.value + Periods(b.last_update, bucket_call.at) * b.refill_amount)
    IN  /\ bucket_call.op = "get" => bucket_call.result = a
        /\ bucket_call.op = "reduce" =>
               /\ bucket_call.result = 1 <=> bucket_call.tokens <= a
               /\ token_bucket.value = a - bucket_call.result * bucket_call.tokens
        /\ (bucket_call.op = "get" /\ bucket_call.reduces = 0) =>
               bucket_call.result = b.max_amount

\* get() two periods after a reduce() emptied the bucket: 2*R, below C
C18_Witness ==
    /\ bucket_call.op = "get"
    /\ bucket_call.reduces >= 1
    /\ bucket_call.before.value = 0
    /\ Periods(bucket_call.before.last_update, bucket_call.at) = 2
    /\ bucket_call.result = 2 * token_bucket.refill_amount
    /\ bucket_call.result < token_bucket.max_amount

\* C19: the on_message calls are the frames received, one call each, in the
\* order received and with the frame's payload; a frame is handed over before
\* the next recv() starts; every call is made by the Thread
C19_OneCallbackPerMessage ==
    /\ Len(delivered) <= Len(received)
    /\ Len(received) <= Len(delivered) + 1
    /\ n_message = Len(delivered)
    /\ \A i \in 1..Len(delivered) :
          /\ delivered[i].msg = received[i]
          /\ delivered[i].by \in {t \in 1..MaxStarts : tpc[t] # "none"}
    /\ Len(received) > Len(delivered) <=> tpc[1] = "message"
    /\ tpc[1] \in {"ping", "recv"} => Len(delivered) = Len(received)

\* two frames received and handed to on_message in order, a third recv() due
C19_Witness ==
    /\ Len(received) = 2
    /\ delivered = <<[msg |-> Payload(1), by |-> 1], [msg |-> Payload(2), by |-> 1]>>
    /\ tpc[1] = "recv"

\* the callers inside the `with self.lock:` block of rate_limit()
InCriticalSection == {c \in callers : pc[c] \in {"loop", "timing", "sleep", "retry"}}

\* C20: at most one caller is inside the lock-protected loop of rate_limit(),
\* it holds the lock while it spends, sleeps and retries, and while it sleeps
\* no caller enters the loop and the bucket is left as it is
C20_LockHeldAcrossSleep ==
    /\ [](Cardinality(InCriticalSection) <= 1)
    /\ [](\A c \in InCriticalSection : lock = c)
    /\ [][(\E c \in callers : pc[c] = "sleep") =>
              /\ token_bucket' = token_bucket
              /\ InCriticalSection' = InCriticalSection]_vars

\* one caller asleep with the lock after time has passed, another waiting for it
C20_Witness ==
    \E c, d \in callers :
        /\ pc[c] = "sleep" /\ lock = c
        /\ wake[c] > now /\ now > 0
        /\ pc[d] = "lock"

\* C21: with burst_size >= 1 and rate_limit >= 1 every thread that called
\* rate_limit() sees it return, and a lock that is held is released
C21_EveryAcquireReturns ==
    /\ \A c \in 1..NumCallers : (pc[c] = "lock") ~> (pc[c] = "request")
    /\ (lock # 0) ~> (lock = 0)

\* C22: after construction and after every reduce(n), n >= 0, at any times,
\* the stored count is at least 0 and at most max_amount
C22_ValueWithinCapacity ==
    /\ token_bucket.value >= 0
    /\ token_bucket.value <= token_bucket.max_amount

\* a reduce() that spent tokens after more refills than the bucket can hold
C22_Witness ==
    /\ bucket_call.op = "reduce"
    /\ bucket_call.result = 1
    /\ bucket_call.tokens >= 1
    /\ bucket_call.before.value
         + Periods(bucket_call.before.last_update, bucket_call.at)
             * token_bucket.refill_amount > token_bucket.max_amount
    /\ token_bucket.value = token_bucket.max_amount - bucket_call.tokens

\* the part of a period passed at time t since s
Fraction(s, t) == (t - s) % refill_period

\* the count reduce() decides on: the count left plus the tokens it spent
Decided == token_bucket.value + bucket_call.result * bucket_call.tokens

\* C23: a reduce() made e whole periods and a fraction f after last_update
\* whose refilled count stays below max_amount adds e*refill_amount, moves
\* last_update forward by e*refill_period and so leaves now - last_update = f
C23_WholePeriodsKeepFraction ==
    bucket_call.op = "reduce" =>
        LET b == bucket_call.before
            e == Periods(b.last_update, bucket_call.at)
            f == Fraction(b.last_update, bucket_call.at)
        IN  b.value + e * b.refill_amount < b.max_amount =>
                /\ Decided = b.value + e * b.refill_amount
                /\ token_bucket.last_update = b.last_update + e * refill_period
                /\ bucket_call.at - token_bucket.last_update = f

\* a reduce() one and a half periods after last_update, below max_amount
C23_Witness ==
    /\ bucket_call.op = "reduce"
    /\ Periods(bucket_call.before.last_update, bucket_call.at) >= 1
    /\ Fraction(bucket_call.before.last_update, bucket_call.at) > 0
    /\ bucket_call.before.value
         + Periods(bucket_call.before.last_update, bucket_call.at)
             * token_bucket.refill_amount < token_bucket.max_amount
    /\ token_bucket.last_update < bucket_call.at

\* C24: a reduce() whose refilled count is at least max_amount decides on
\* exactly max_amount and sets last_update to the time of the call
C24_ResetOnFull ==
    bucket_call.op = "reduce" =>
        LET b == bucket_call.before
            e == Periods(b.last_update, bucket_call.at)
        IN  b.value + e * b.refill_amount >= b.max_amount =>
                /\ Decided = b.max_amount
                /\ token_bucket.last_update = bucket_call.at

\* a reduce() on a full bucket half a period after a refill: the half
\* period is dropped
C24_Witness ==
    /\ bucket_call.op = "reduce"
    /\ bucket_call.before.value
         + Periods(bucket_call.before.last_update, bucket_call.at)
             * token_bucket.refill_amount >= token_bucket.max_amount
    /\ Periods(bucket_call.before.last_update, bucket_call.at) >= 1
    /\ Fraction(bucket_call.before.last_update, bucket_call.at) > 0
    /\ bucket_call.before.value < token_bucket.max_amount
    /\ token_bucket.last_update = bucket_call.at

\* a reduce() that found the refilled count at max_amount and reset the bucket
ResetDone ==
    /\ bucket_call.op = "reduce"
    /\ bucket_call.before.value
         + Periods(bucket_call.before.last_update, bucket_call.at)
             * token_bucket.refill_amount >= token_bucket.max_amount

\* C25 as stated: for the same reduce(1) calls at the same times the bucket
\* has never granted more than the reference bucket, and a reset moves
\* last_update, and with it the next refill, by less than one refill period
C25_ResetOnlyDelays ==
    /\ n_spent <= n_spent_reference
    /\ ResetDone =>
           /\ token_bucket.last_update - reference.last_update >= 0
           /\ token_bucket.last_update - reference.last_update < refill_period
           /\ token_bucket.last_update
                - (bucket_call.before.last_update
                     + Periods(bucket_call.before.last_update, bucket_call.at)
                         * refill_period) < refill_period

\* the bucket is one grant behind the reference after a reset dropped half
\* a period
C25_Witness ==
    /\ n_spent >= 1
    /\ n_spent < n_spent_reference
    /\ token_bucket.last_update > reference.last_update

\* C25 amended: a reset moves last_update, and with it the next refill, by
\* less than one refill period; the bucket has never granted more than
\* max_amount plus refill_amount for every whole period since it was built;
\* with refill_amount = 1 it has never granted more than the reference bucket
C25_ResetDelaysWithinRate ==
    /\ ResetDone =>
           /\ token_bucket.last_update - reference.last_update >= 0
           /\ token_bucket.last_update - reference.last_update < refill_period
           /\ token_bucket.last_update
                - (bucket_call.before.last_update
                     + Periods(bucket_call.before.last_update, bucket_call.at)
                         * refill_period) < refill_period
    /\ n_spent <= token_bucket.max_amount
                    + token_bucket.refill_amount * Periods(0, now)
    /\ token_bucket.refill_amount = 1 => n_spent <= n_spent_reference

\* C26: time_to_next_token() is the time left in the current period: more
\* than 0, at most refill_period, and after waiting that long one more whole
\* period has passed since last_update
C26_TimeToNextTokenInPeriod ==
    bucket_call.op = "time_to_next_token" =>
        /\ bucket_call.result > 0
        /\ bucket_call.result <= refill_period
        /\ refill_count(bucket_call.before, bucket_call.at + bucket_call.result)
             = refill_count(bucket_call.before, bucket_call.at) + 1

\* C27: in rate_limit() the reduce(1) made after a sleep succeeds, so a call
\* sleeps at most once; the sleep it asks for ends one refill_period after
\* the bucket's last_update, which is not later than the failed reduce(1),
\* so it is at most refill_period long
C27_OneSleepSuffices ==
    /\ [](\A c \in callers :
            pc[c] = "sleep" =>
                /\ lock = c
                /\ wake[c] = token_bucket.last_update + refill_period)
    /\ [][\A c \in callers :
            pc[c] = "retry" => pc'[c] \in {"retry", "request"}]_vars

\* a thread that failed reduce(1), slept to the end of the period and holds
\* the lock, about to call reduce(1) again
C27_Witness ==
    \E c \in callers :
        /\ pc[c] = "retry"
        /\ lock = c
        /\ token_bucket.value = 0
        /\ now >= token_bucket.last_update + refill_period

\* C28: every request of a fetch after its first follows a response that
\* carried a cursor to a request without `before`, goes to the same endpoint,
\* and has the previous request's parameters with `after` set to that cursor
C28_NextPageChangesOnlyAfter ==
    \A i \in 1..(Len(exchanges) - 1) :
        /\ exchanges[i].response.cb_after # NoCursor
        /\ exchanges[i].params.before = None
        /\ exchanges[i + 1].url = exchanges[i].url
        /\ exchanges[i + 1].params =
               [exchanges[i].params EXCEPT !.after = exchanges[i].response.cb_after]

\* a fetch made with limit and after whose second request carries the limit
\* and the first response's cursor
C28_Witness ==
    /\ Len(exchanges) >= 2
    /\ exchanges[1].params = [before |-> None, after |-> "A", limit |-> "1"]
    /\ exchanges[1].response.cb_after = "X"
    /\ exchanges[2].params = [before |-> None, after |-> "X", limit |-> "1"]

\* C29: what a fetch has yielded is the item lists of the pages it fetched,
\* joined in request order, up to the item the for loop has reached in the
\* latest page (a page that raised has no items); a fetch that has ended
\* without error has yielded all of it
C29_YieldsConcatenation ==
    /\ Len(exchanges) = 0 => yielded = <<>>
    /\ Len(exchanges) > 0 =>
           /\ Len(yielded) = Len(ItemsOfPages(Len(exchanges) - 1))
                  + (IF request_outcome(exchanges[Len(exchanges)].response) = None
                     THEN idx ELSE 0)
           /\ yielded = SubSeq(ItemsOfPages(Len(exchanges)), 1, Len(yielded))
    /\ pc[Fetcher] = "done" => yielded = ItemsOfPages(Len(exchanges))

\* three pages of two, one and two items, all yielded in order
C29_Witness ==
    /\ pc[Fetcher] = "done"
    /\ Len(exchanges) = 3
    /\ exchanges[1].response.items = <<"a", "b">>
    /\ exchanges[2].response.items = <<"c">>
    /\ exchanges[3].response.items = <<"a", "b">>
    /\ yielded = <<"a", "b", "c", "a", "b">>

\* C30: a session sends at most one message, the subscribe message; it is
\* sent on the opened transport before any ping or recv(), a Thread that has
\* reached _listen has sent it, and it carries signature, key, passphrase
\* and timestamp exactly when auth is set
C30_OneSubscribeFirst ==
    /\ Len(sent) <= 1
    /\ Len(sent) = 1 <=> tpc[1] \notin {"none", "connect", "subscribe", "died"}
    /\ Len(sent) = 1 => conn[1] # "none"
    /\ Len(sent) = 0 => pings = <<>> /\ received = <<>>
    /\ \A i \in 1..Len(sent) :
          /\ "type" \in sent[i]
          /\ auth => AuthFields \subseteq sent[i]
          /\ ~auth => AuthFields \cap sent[i] = {}

\* a session with auth that has subscribed, pinged and received a frame
C30_Witness ==
    /\ auth
    /\ Len(sent) = 1
    /\ AuthFields \subseteq sent[1]
    /\ Len(pings) >= 1
    /\ Len(received) >= 1

\* the session has reached CLOSED: the transport is closed, on_close was
\* called and the Thread has exited
Closed ==
    /\ tpc[1] = "exited"
    /\ conn[1] = "closed"
    /\ n_close >= 1

\* C31: a session whose Thread was started reaches CLOSED once stop is set
\* or an error has occurred
C31_SessionReachesClosed ==
    (tpc[1] # "none" /\ (stop \/ n_error > 0 \/ tpc[1] = "died")) ~> Closed

\* C32: after the caller's close() has set stop, the Thread sends at most
\* one more ping, receives at most one more frame and makes at most one more
\* on_message call, the one for the frame in flight
C32_OneMoreIteration ==
    at_stop.called =>
        /\ Len(pings) <= at_stop.pings + 1
        /\ Len(received) <= at_stop.received + 1
        /\ n_message <= at_stop.delivered + 1
        /\ Len(received) - n_message <= 1

\* close() came right after the loop test: the Thread pinged, received and
\* handed over one more frame and then left _listen
C32_Witness ==
    /\ at_stop.called
    /\ Len(pings) = at_stop.pings + 1
    /\ Len(received) = at_stop.received + 1
    /\ n_message = at_stop.delivered + 1
    /\ tpc[1] \in {"disconnect", "join", "exited"}

\* the Threads created so far
Spawned == {t \in 1..MaxStarts : tpc[t] # "none"}

\* C33: every start() creates exactly one Thread and is over in the caller's
\* context with that Thread still before create_connection: no transport was
\* opened, nothing sent and nothing received by the call
C33_StartDoesNotWait ==
    /\ [](Cardinality(Spawned) = starts)
    /\ [][starts' # starts =>
            /\ starts' = starts + 1
            /\ main' = "ready"
            /\ tpc' = [tpc EXCEPT ![starts'] = "connect"]
            /\ conn' = conn /\ ws' = ws
            /\ sent' = sent /\ received' = received /\ n_message' = n_message]_vars

\* start() has returned and the caller has gone on to close() while the
\* Thread has not yet opened the transport
C33_Witness ==
    /\ starts = 1
    /\ tpc[1] = "connect"
    /\ conn[1] = "none"
    /\ main = "joining"

\* C34: in a session with one close() by the caller, called after start(),
\* on_close is called at most once, however the close() and the Thread's own
\* shutdown interleave
C34_OneCloseCallback ==
    (starts = 1 /\ closes = 1 /\ at_stop.called) => n_close <= 1

\* C35: the Thread's own close() at the end of _disconnect goes on to
\* on_close and the Thread exits, and a close() by the caller that waits in
\* join returns; a close() made before start() returns at once
C35_ShutdownNeverBlocks ==
    /\ (tpc[1] = "join") ~> (tpc[1] = "exited")
    /\ (main = "joining") ~> (main = "ready")
    /\ [][(closes' # closes /\ thread = 0) => main' = "ready"]_vars

\* the Thread has left its own close() and two close() calls of the caller,
\* one of them made after the Thread was gone, have returned
C35_Witness ==
    /\ tpc[1] = "exited"
    /\ closes = 2
    /\ n_joined = 2
    /\ main = "ready"
    /\ n_close = 3

\* C36: a step that is not a reduce(), get() and time_to_next_token()
\* included, leaves value and last_update as they are, and what get()
\* returned is the count a reduce() made at the same time decides on: it
\* grants n tokens exactly when n is at most that count and leaves the rest
C36_QueriesChangeNothing ==
    /\ [][bucket_call'.reduces = bucket_call.reduces =>
            token_bucket' = token_bucket]_vars
    /\ [](bucket_call.op \in {"get", "time_to_next_token"} =>
            token_bucket = bucket_call.before)
    /\ []((bucket_call.op = "get" /\ bucket_call.at = now) =>
            /\ bucket_call.result =
                 Min(token_bucket.max_amount,
                     token_bucket.value
                       + refill_count(token_bucket, now) * token_bucket.refill_amount)
            /\ \A n \in 0..MaxTokens :
                  LET r == reduce(token_bucket, now, n)
                  IN  /\ r.ok <=> n <= bucket_call.result
                      /\ r.ok => r.bucket.value = bucket_call.result - n
                      /\ ~r.ok => r.bucket.value = bucket_call.result)

\* get() counted a refill that the bucket has not stored
C36_Witness ==
    /\ bucket_call.op = "get"
    /\ bucket_call.at = now
    /\ bucket_call.result > token_bucket.value
    /\ bucket_call.result < token_bucket.max_amount
    /\ token_bucket.last_update + refill_period <= now

(* ------------------ claims on the authenticated client ----------------- *)
\* the threads that call the public endpoints, and the authenticated ones
PublicCallers == {c \in callers : kind[c] = "direct"}
AuthCallers == {c \in callers : kind[c] = "auth"}

\* where a caller is while inside rate_limit() of the one limiter or the other
InPublicLimiter == {"lock", "loop", "timing", "sleep", "retry"}
InAuthLimiter == {"a_lock", "a_loop", "a_timing", "a_sleep", "a_retry"}

\* any step a caller of a public endpoint can take, and of an authenticated one
PublicStep(c) ==
    \/ send_message_begin(c)
    \/ rate_limit_enter(c)
    \/ rate_limit_loop(c)
    \/ rate_limit_sleep(c)
    \/ rate_limit_wake(c)
    \/ send_message_request(c)

AuthStep(c) ==
    \/ a_send_message_begin(c)
    \/ a_rate_limit_enter(c)
    \/ a_rate_limit_loop(c)
    \/ a_rate_limit_sleep(c)
    \/ a_rate_limit_wake(c)
    \/ a_send_message_request(c)

\* any window of k refill periods holds at most burst + k*rate of the returns g
WithinRate(g, burst, rate) ==
    \A i, j \in 1..Len(g) : \A k \in 0..(horizon \div refill_period + 1) :
        (i <= j /\ g[j] - g[i] <= k * refill_period) => j - i + 1 <= burst + k * rate

\* each caller is only ever inside its own limiter, holds only its lock,
\* requests with a return of its own limiter, and can take its next step
\* unless it waits for its own limiter's lock, held by a caller of the same
\* limiter, or for its own sleep, or has no call left to make; each limiter
\* that exists keeps its rate and one that does not exist is never touched
EachItsOwnLimiter ==
    /\ \A c \in PublicCallers : pc[c] \in {"idle", "request"} \cup InPublicLimiter
    /\ \A c \in AuthCallers : pc[c] \in {"idle", "a_request"} \cup InAuthLimiter
    /\ lock \in PublicCallers \cup {0}
    /\ a_lock \in AuthCallers \cup {0}
    /\ \A c \in PublicCallers :
          /\ limiter_on => credits[c] = IF pc[c] = "request" THEN 1 ELSE 0
          /\ \/ pc[c] = "idle" /\ calls_left = 0
             \/ pc[c] = "lock" /\ lock \in PublicCallers \ {c}
             \/ pc[c] = "sleep" /\ now < wake[c]
             \/ ENABLED PublicStep(c)
    /\ \A c \in AuthCallers :
          /\ a_limiter_on => credits[c] = IF pc[c] = "a_request" THEN 1 ELSE 0
          /\ \/ pc[c] = "idle" /\ calls_left = 0
             \/ pc[c] = "a_lock" /\ a_lock \in AuthCallers \ {c}
             \/ pc[c] = "a_sleep" /\ now < wake[c]
             \/ ENABLED AuthStep(c)
    /\ limiter_on = (rate_limit > 0)
    /\ a_limiter_on = (auth_rate_limit > 0)
    /\ limiter_on => WithinRate(grants, burst_size, rate_limit)
    /\ a_limiter_on => WithinRate(a_grants, auth_burst_size, auth_rate_limit)
    /\ ~limiter_on =>
          lock = 0 /\ grants = <<>> /\ token_bucket = RateLimiter(burst_size, rate_limit, 0)
    /\ ~a_limiter_on =>
          /\ a_lock = 0
          /\ a_grants = <<>>
          /\ a_token_bucket = RateLimiter(auth_burst_size, auth_rate_limit, 0)

\* a step on one limiter is a step of one of its own callers and leaves the
\* other limiter's lock, bucket and returns as they were
OneLimiterAStep ==
    /\ (lock' # lock \/ token_bucket' # token_bucket \/ grants' # grants) =>
          /\ UNCHANGED <<a_lock, a_token_bucket, a_grants>>
          /\ \E c \in PublicCallers :
                pc'[c] # pc[c] /\ \A d \in callers \ {c} : pc'[d] = pc[d]
    /\ (a_lock' # a_lock \/ a_token_bucket' # a_token_bucket \/ a_grants' # a_grants) =>
          /\ UNCHANGED <<lock, token_bucket, grants>>
          /\ \E c \in AuthCallers :
                pc'[c] # pc[c] /\ \A d \in callers \ {c} : pc'[d] = pc[d]

\* C37: the two limiters of an AuthenticatedClient are independent: a request
\* to a public endpoint acquires only from the public limiter and a request
\* to an authenticated endpoint only from the auth limiter, acquiring on one
\* never changes the other's bucket, a caller waiting on one never blocks a
\* caller of the other, and a limiter disabled with rate 0 leaves the other
\* enforced
C37_LimitersIndependent == []EachItsOwnLimiter /\ [][OneLimiterAStep]_vars

\* a caller of a public endpoint sleeps with the public limiter's lock held
\* while a caller of an authenticated endpoint has just been let through
C37_Witness ==
    /\ limiter_on
    /\ a_limiter_on
    /\ \E c \in PublicCallers : pc[c] = "sleep" /\ lock = c /\ now < wake[c]
    /\ \E d \in AuthCallers :
          /\ pc[d] = "a_request"
          /\ a_grants # <<>>
          /\ a_grants[Len(a_grants)] = now
          /\ now > 0

=============================================================================
